---- MODULE Spec2Model ----
(***************************************************************************)
(* Matching and conversation subsystem of educlove (backend/database).     *)
(*                                                                         *)
(* The three MongoDB collections the subsystem writes are modelled as sets *)
(* of documents carrying an _id:                                           *)
(*   matches        MatchesRepository        (repositories/matches.py)     *)
(*   conversations  ConversationsRepository  (repositories/conversations.py)*)
(*   visits         ProfileVisitsRepository  (repositories/profile_visits.py)*)
(* Every single collection call (find_one, insert_one, update_one) is      *)
(* atomic, as in MongoDB; a handler is a sequence of such calls.           *)
(*                                                                         *)
(* Specifications:                                                         *)
(*   Spec       like / updateMatchStatus / sendMessage, one handler at a   *)
(*              time (each action is a whole handler).                     *)
(*   ConvSpec   createConversation / addMessage of the conversation store, *)
(*              one call at a time.                                        *)
(*   ConvConcSpec  the same two calls run by concurrent workers, one       *)
(*              collection call per step, with a clock.                    *)
(*   VisitSpec  recordVisit run by concurrent workers, with a clock and    *)
(*              the TTL monitor of the storage engine.                     *)
(* created_at / updated_at of matches and buckets are not modelled: no     *)
(* modelled operation reads them.                                          *)
(***************************************************************************)
EXTENDS Integers, Sequences, FiniteSets, TLC

VARIABLES matches, conversations, visits, nextId, now, ret, procs, profiles, criteria

vars == <<matches, conversations, visits, nextId, now, ret, procs, profiles, criteria>>

----------------------------------------------------------------------------
(* Bounds of the model *)

\* messages the conversation collection may hold in Spec
MaxMsgs == 2
\* calls of createConversation / addMessage explored by ConvSpec
MaxNew == 3
\* calls started by the workers of ConvConcSpec
MaxCalls == 3
\* calls started by the workers of VisitSpec
MaxVisitCalls == 3
\* one-second ticks of the clock
MaxTicks == 1
\* times the clock is advanced by the whole retention period
MaxJumps == 1
\* largest count / limit / skip handed to the read operations
MaxArg == 3
\* like requests started by the workers of LikeConcSpec and LikeRaceSpec
MaxLikeCalls == 3
\* visit records inserted in SelectSpec
MaxSelVisits == 1
\* fields of profiles and criteria changed from their initial content in SelectSpec
MaxEdits == 1

----------------------------------------------------------------------------
(* Program constants and input domains *)

MESSAGES_PER_BUCKET == 100

PROFILE_VISIT_TTL_SECONDS == 30 * 24 * 60 * 60

PENDING == "PENDING"

ACCEPTED == "ACCEPTED"

REJECTED == "REJECTED"

BLOCKED == "BLOCKED"

MatchStatus == {PENDING, ACCEPTED, REJECTED, BLOCKED}

\* Python None where a string is expected / where an integer is expected
None == "None"

NoneInt == -1

\* stored profiles and their first_name
Profiles == {"A", "B"}

\* profile ids a caller may present; "Z" has no stored profile
ProfileIds == Profiles \cup {"Z"}

FirstName(p) == IF p = "A" THEN "Alice" ELSE IF p = "B" THEN "Bob" ELSE "Unknown"

ProfileExists(p) == p \in Profiles

Texts == {"m1", "m2"}

\* the optional message of a like
LikeMessages == Texts \cup {None}

\* the text of a sendMessage request
SendTexts == {"s1"}

Truthy(s) == s # None /\ s # ""

Workers == {"w1", "w2"}

Users == {"u1", "u2"}

\* users and their profile_id: u2 has not created a profile
ProfileIdOf(u) == IF u = "u1" THEN "A" ELSE None

MALE == "MALE"

FEMALE == "FEMALE"

\* gender of a profile (optional) and the gender preferences it may list
Genders == {MALE, FEMALE, None}

GenderPreferences == SUBSET {MALE, FEMALE}

\* calendar dates as year and day of the year: (month, day) pairs compare as
\* days of the year do (29 February is not among the modelled dates)
Date(y, d) == [year |-> y, doy |-> d]

DateLess(a, b) == a.year < b.year \/ (a.year = b.year /\ a.doy < b.doy)

BaseYear == 2025

BaseDoy == 100

SecondsPerDay == 24 * 60 * 60

\* date.today() when the clock shows t
Today(t) == Date(BaseYear, BaseDoy + t \div SecondsPerDay)

\* the age bound a user may save
SelAge == 30

\* dates of birth around the saved age bounds on the base date
BirthDates ==
    {Date(BaseYear - SelAge - 1, BaseDoy), Date(BaseYear - SelAge - 1, BaseDoy + 1),
     Date(BaseYear - SelAge, BaseDoy), Date(BaseYear - SelAge, BaseDoy + 1)}

\* places on a line, in km; the radius a user may save, in km
Places == {0, 10}

SelRadius == 5

Radii == {0, SelRadius}

\* content of the stored profiles before any update
DefaultProfiles ==
    [p \in Profiles |->
        IF p = "A"
        THEN [gender |-> MALE, looking_for_gender |-> {FEMALE},
              date_of_birth |-> Date(BaseYear - SelAge, BaseDoy), location |-> 0]
        ELSE [gender |-> FEMALE, looking_for_gender |-> {MALE},
              date_of_birth |-> Date(BaseYear - SelAge, BaseDoy), location |-> 0]]

ProfileFields == {"gender", "looking_for_gender", "date_of_birth", "location"}

FieldValues(f) ==
    IF f = "gender" THEN Genders
    ELSE IF f = "looking_for_gender" THEN GenderPreferences
    ELSE IF f = "date_of_birth" THEN BirthDates
    ELSE Places

\* search criteria of a user who saved none: get_search_criteria returns
\* None and the selection uses {}
NoCriteria == [age_min |-> NoneInt, age_max |-> NoneInt, locations |-> <<>>, radii |-> <<>>]

AgeBounds == {NoneInt, SelAge}

\* saved (location, radius) lists, locations[i] going with radii[i]
LocationLists ==
    {<<>>} \cup {<<a>> : a \in Places} \cup {<<a, b>> : a \in Places, b \in Places}

RadiiLists ==
    {<<>>} \cup {<<a>> : a \in Radii} \cup {<<a, b>> : a \in Radii, b \in Radii}

CriteriaDocs ==
    {[age_min |-> lo, age_max |-> hi, locations |-> lr[1], radii |-> lr[2]] :
        lo \in AgeBounds, hi \in AgeBounds,
        lr \in {x \in LocationLists \X RadiiLists : Len(x[1]) = Len(x[2])}}

----------------------------------------------------------------------------
(* Documents *)

NoDoc == [_id |-> 0]

Found(d) == d._id # 0

NoResult == [action |-> "none", match_id |-> 0, status |-> None,
             reverse_match_message |-> None, ok |-> FALSE]

Result(a, id, st, rm, ok) ==
    [action |-> a, match_id |-> id, status |-> st,
     reverse_match_message |-> rm, ok |-> ok]

\* a worker between two calls, having started n calls
Idle(n) == [pc |-> "idle", args |-> NoDoc, latest |-> NoDoc, msg |-> NoDoc, calls |-> n]

Message(t, s, n, c) ==
    [datetime |-> t, sender_profile_id |-> s, sender_name |-> n, content |-> c]

----------------------------------------------------------------------------
(* MatchesRepository *)

\* find_match querying the pair the wrong way round
FindMatch_Swapped(ms, initiator, target) ==
    IF \E d \in ms : d.initiator_profile_id = target /\ d.target_profile_id = initiator
    THEN CHOOSE d \in ms : d.initiator_profile_id = target /\ d.target_profile_id = initiator
    ELSE NoDoc

FindMatch(ms, initiator, target) ==
    IF \E d \in ms : d.initiator_profile_id = initiator /\ d.target_profile_id = target
    THEN CHOOSE d \in ms : d.initiator_profile_id = initiator /\ d.target_profile_id = target
    ELSE NoDoc

FindReverseMatch(ms, current, target) ==
    IF \E d \in ms : d.initiator_profile_id = target /\ d.target_profile_id = current
    THEN CHOOSE d \in ms : d.initiator_profile_id = target /\ d.target_profile_id = current
    ELSE NoDoc

\* create_match that does not store the initial message
CreateMatch_DropsMessage(ms, id, initiator, target, status, msg) ==
    IF \E d \in ms : d.initiator_profile_id = initiator /\ d.target_profile_id = target
    THEN [matches |-> ms, ok |-> FALSE]
    ELSE [matches |-> ms \cup {[_id |-> id,
                                initiator_profile_id |-> initiator,
                                target_profile_id |-> target,
                                status |-> IF status = None THEN PENDING ELSE status,
                                initial_message |-> None]},
          ok |-> TRUE]

\* insert_one under the unique index (initiator_profile_id, target_profile_id):
\* ok = FALSE stands for DuplicateKeyError
CreateMatch(ms, id, initiator, target, status, msg) ==
    IF \E d \in ms : d.initiator_profile_id = initiator /\ d.target_profile_id = target
    THEN [matches |-> ms, ok |-> FALSE]
    ELSE [matches |-> ms \cup {[_id |-> id,
                                initiator_profile_id |-> initiator,
                                target_profile_id |-> target,
                                status |-> IF status = None THEN PENDING ELSE status,
                                initial_message |-> msg]},
          ok |-> TRUE]

SetStatus(ms, sel, status) ==
    {IF d \in sel THEN [d EXCEPT !.status = status] ELSE d : d \in ms}

\* update_one by _id; modified_count > 0 as soon as a document matches,
\* because updated_at is always rewritten
UpdateMatchStatusById(ms, id, status) ==
    LET sel == {d \in ms : d._id = id}
    IN  [matches |-> SetStatus(ms, sel, status), ok |-> sel # {}]

\* update_match_status_by_profiles selecting the match of the opposite direction
UpdateMatchStatusByProfiles_Swapped(ms, initiator, target, status) ==
    LET sel == {d \in ms : d.initiator_profile_id = target
                           /\ d.target_profile_id = initiator}
    IN  [matches |-> SetStatus(ms, sel, status), ok |-> sel # {}]

UpdateMatchStatusByProfiles(ms, initiator, target, status) ==
    LET sel == {d \in ms : d.initiator_profile_id = initiator
                           /\ d.target_profile_id = target}
    IN  [matches |-> SetStatus(ms, sel, status), ok |-> sel # {}]

GetMatchesForProfile(ms, p, status) ==
    {d \in ms : /\ (d.initiator_profile_id = p \/ d.target_profile_id = p)
                /\ (status = None \/ d.status = status)}

\* a query without the status filter
GetAcceptedMatches_AnyStatus(ms, p) == GetMatchesForProfile(ms, p, None)

GetAcceptedMatches(ms, p) == GetMatchesForProfile(ms, p, ACCEPTED)

\* handle_like, run without interruption
HandleLike(ms, id, current, target, msg) ==
    LET existing == FindMatch(ms, current, target)
        reverse  == FindReverseMatch(ms, current, target)
    IN  IF Found(existing)
        THEN [matches |-> ms,
              result |-> Result("already_liked", existing._id, existing.status, None, TRUE)]
        ELSE IF Found(reverse) /\ reverse.status = PENDING
        THEN LET upd == UpdateMatchStatusByProfiles(ms, target, current, ACCEPTED)
             IN  IF upd.ok
                 THEN [matches |-> upd.matches,
                       result |-> Result("mutual_match", reverse._id, ACCEPTED,
                                         reverse.initial_message, TRUE)]
                 ELSE [matches |-> upd.matches,
                       result |-> Result("error", 0, None, None, FALSE)]
        ELSE LET ins == CreateMatch(ms, id, current, target, None, msg)
             IN  IF ins.ok
                 THEN [matches |-> ins.matches,
                       result |-> Result("like_sent", id, PENDING, None, TRUE)]
                 ELSE [matches |-> ms,
                       result |-> Result("exception", 0, None, None, FALSE)]

----------------------------------------------------------------------------
(* ConversationsRepository *)

BucketsOf(cs, m) == {b \in cs : b.match_id = m}

ConversationExists(cs, m) == BucketsOf(cs, m) # {}

\* find_one(sort bucket_number descending): any bucket carrying the highest
\* number (the order among equal numbers is not specified by the store)
LatestBuckets(cs, m) ==
    {b \in BucketsOf(cs, m) : \A o \in BucketsOf(cs, m) : o.bucket_number <= b.bucket_number}

NewBucket(id, m, number, msg) ==
    [_id |-> id, match_id |-> m, bucket_number |-> number,
     message_count |-> 1, messages |-> <<msg>>]

CreateConversation(cs, id, m, msg) == cs \cup {NewBucket(id, m, 1, msg)}

\* $set of the messages where $push is meant
PushMessage_Overwrite(cs, bid, msg) ==
    {IF b._id = bid
     THEN [b EXCEPT !.messages = <<msg>>, !.message_count = 1]
     ELSE b : b \in cs}

\* $push that puts the new message in front
PushMessage_Prepend(cs, bid, msg) ==
    {IF b._id = bid
     THEN [b EXCEPT !.messages = <<msg>> \o @, !.message_count = @ + 1]
     ELSE b : b \in cs}

\* update_one by _id with $push and $inc
PushMessage(cs, bid, msg) ==
    {IF b._id = bid
     THEN [b EXCEPT !.messages = Append(@, msg), !.message_count = @ + 1]
     ELSE b : b \in cs}

\* the write of add_message once find_one has returned latest (NoDoc: none)
AddMessageWrite(cs, id, m, latest, msg) ==
    IF ~Found(latest)
    THEN [conversations |-> CreateConversation(cs, id, m, msg), ok |-> TRUE, inserted |-> TRUE]
    ELSE IF latest.message_count >= MESSAGES_PER_BUCKET
    THEN [conversations |-> cs \cup {NewBucket(id, m, latest.bucket_number + 1, msg)},
          ok |-> TRUE, inserted |-> TRUE]
    ELSE [conversations |-> PushMessage(cs, latest._id, msg),
          ok |-> \E b \in cs : b._id = latest._id, inserted |-> FALSE]

\* the possible outcomes of add_message run without interruption
AddMessageOutcomes(cs, id, m, msg) ==
    IF ConversationExists(cs, m)
    THEN {AddMessageWrite(cs, id, m, lb, msg) : lb \in LatestBuckets(cs, m)}
    ELSE {AddMessageWrite(cs, id, m, NoDoc, msg)}

\* number of messages stored in the buckets S
CountMessages(S) ==
    LET RECURSIVE Sum(_)
        Sum(T) == IF T = {} THEN 0
                  ELSE LET b == CHOOSE x \in T : TRUE
                       IN  Len(b.messages) + Sum(T \ {b})
    IN  Sum(S)

\* find({"match_id": m}).sort("bucket_number", 1): the buckets of m in every
\* order the sort may produce (buckets carrying the same number in any order)
AscOrders(cs, m) ==
    LET S == BucketsOf(cs, m)
        n == Cardinality(S)
    IN  {f \in [1 .. n -> S] :
            /\ \A i, j \in 1 .. n : i # j => f[i] # f[j]
            /\ \A i, j \in 1 .. n : i < j => f[i].bucket_number <= f[j].bucket_number}

\* find({"match_id": m}).sort("bucket_number", -1)
DescOrders(cs, m) ==
    LET S == BucketsOf(cs, m)
        n == Cardinality(S)
    IN  {f \in [1 .. n -> S] :
            /\ \A i, j \in 1 .. n : i # j => f[i] # f[j]
            /\ \A i, j \in 1 .. n : i < j => f[i].bucket_number >= f[j].bucket_number}

\* all_messages of get_conversation: the messages of the buckets, in order
Flatten(buckets) ==
    LET RECURSIVE Cat(_)
        Cat(i) == IF i > Len(buckets) THEN <<>>
                  ELSE buckets[i].messages \o Cat(i + 1)
    IN  Cat(1)

\* Python s[k:] for k >= 0
SliceFrom(s, k) == IF k >= Len(s) THEN <<>> ELSE SubSeq(s, k + 1, Len(s))

\* Python s[:k] for k >= 0
SliceTo(s, k) == IF k >= Len(s) THEN s ELSE SubSeq(s, 1, k)

\* Python s[-k:] for k >= 0; s[-0:] is s[0:], the whole list
SliceLast(s, k) ==
    IF k = 0 \/ k >= Len(s) THEN s ELSE SubSeq(s, Len(s) - k + 1, Len(s))

\* get_conversation on the buckets as the ascending sort returned them;
\* "if skip:" and "if limit:" are false for None and for 0
GetConversation(buckets, limit, skip) ==
    LET all     == Flatten(buckets)
        skipped == IF skip # NoneInt /\ skip # 0 THEN SliceFrom(all, skip) ELSE all
    IN  IF limit # NoneInt /\ limit # 0 THEN SliceTo(skipped, limit) ELSE skipped

\* get_latest_messages on the buckets as the descending sort returned them
GetLatestMessages(buckets, count) ==
    LET RECURSIVE Walk(_, _)
        Walk(i, messages) ==
            IF i > Len(buckets) THEN messages
            ELSE LET more == buckets[i].messages \o messages
                 IN  IF Len(more) >= count THEN SliceLast(more, count)
                     ELSE Walk(i + 1, more)
    IN  Walk(1, <<>>)

----------------------------------------------------------------------------
(* ProfileVisitsRepository *)

VisitsOf(vs, u, p) == {d \in vs : d.user_id = u /\ d.visited_profile_id = p}

\* update_one with upsert that inserts a new document on every call
UpsertVisit_AlwaysInserts(vs, id, u, p, t) ==
    [visits |-> vs \cup {[_id |-> id, user_id |-> u,
                          visited_profile_id |-> p, visited_at |-> t]},
     upserted_id |-> id]

\* update_one({user_id, visited_profile_id}, {$set: visit_data}, upsert=True):
\* one atomic call of the store, under the unique index on the pair
UpsertVisit(vs, id, u, p, t) ==
    IF VisitsOf(vs, u, p) # {}
    THEN LET d == CHOOSE x \in VisitsOf(vs, u, p) : TRUE
         IN  [visits |-> (vs \ {d}) \cup {[d EXCEPT !.user_id = u,
                                                    !.visited_profile_id = p,
                                                    !.visited_at = t]},
              upserted_id |-> 0]
    ELSE [visits |-> vs \cup {[_id |-> id, user_id |-> u,
                               visited_profile_id |-> p, visited_at |-> t]},
          upserted_id |-> id]

HasVisited(vs, u, p) == VisitsOf(vs, u, p) # {}

GetVisitedProfileIds(vs, u) == {d.visited_profile_id : d \in {x \in vs : x.user_id = u}}

\* count_documents({"user_id": u})
GetVisitCount(vs, u) == Cardinality({d \in vs : d.user_id = u})

\* a TTL index created with expireAfterSeconds = 0
Expired_AtOnce(d, t) == d.visited_at <= t

\* the TTL index on visited_at: a document may be removed once
\* expireAfterSeconds have passed since its visited_at
Expired(d, t) == d.visited_at + PROFILE_VISIT_TTL_SECONDS <= t

----------------------------------------------------------------------------
(* Initial state *)

Init ==
    /\ matches = {}
    /\ conversations = {}
    /\ visits = {}
    /\ nextId = [matches |-> 1, conversations |-> 1, profile_visits |-> 1]
    /\ now = 0
    /\ ret = NoResult
    /\ procs = [w \in Workers |-> Idle(0)]
    /\ profiles = DefaultProfiles
    /\ criteria = [u \in Users |-> NoCriteria]

----------------------------------------------------------------------------
(* Spec: MongoDatabase.handle_profile_like, MatchesRepository.update_match_status, *)
(* routes/conversations.send_message                                        *)

\* the conversation writes of handle_profile_like after handle_like returned r
LikeConversationOutcomes(cs, id, current, target, msg, r) ==
    IF ~(Truthy(msg) /\ r.action \in {"like_sent", "mutual_match"})
    THEN {[conversations |-> cs, inserted |-> 0]}
    ELSE LET mine == Message(now, current, FirstName(current), msg)
         IN  IF r.action = "like_sent"
             THEN {[conversations |-> CreateConversation(cs, id, r.match_id, mine),
                    inserted |-> 1]}
             ELSE IF ConversationExists(cs, r.match_id)
             THEN {[conversations |-> o.conversations,
                    inserted |-> IF o.inserted THEN 1 ELSE 0]
                   : o \in AddMessageOutcomes(cs, id, r.match_id, mine)}
             ELSE IF ProfileExists(target) /\ Truthy(r.reverse_match_message)
             THEN LET seeded == CreateConversation(cs, id, r.match_id,
                                    Message(now, target, FirstName(target),
                                            r.reverse_match_message))
                  IN  {[conversations |-> o.conversations,
                        inserted |-> IF o.inserted THEN 2 ELSE 1]
                       : o \in AddMessageOutcomes(seeded, id + 1, r.match_id, mine)}
             ELSE {[conversations |-> cs, inserted |-> 0]}

\* like(current, target, message?): the caller layer has rejected a like of
\* one's own profile and a like of a target that does not exist
Like(current, target, msg) ==
    /\ current # target
    /\ ProfileExists(target)
    /\ IF ~ProfileExists(current)
       THEN /\ ret' = Result("error", 0, None, None, FALSE)
            /\ UNCHANGED <<matches, conversations, nextId>>
       ELSE LET h == HandleLike(matches, nextId.matches, current, target, msg)
            IN  /\ matches' = h.matches
                /\ ret' = h.result
                /\ \E o \in LikeConversationOutcomes(conversations, nextId.conversations,
                                                     current, target, msg, h.result) :
                      /\ CountMessages(o.conversations) <= MaxMsgs
                      /\ conversations' = o.conversations
                      /\ nextId' = [nextId EXCEPT
                             !.matches = IF h.result.action = "like_sent" THEN @ + 1 ELSE @,
                             !.conversations = @ + o.inserted]
    /\ UNCHANGED <<visits, now, procs, profiles, criteria>>

\* updateMatchStatus(matchId, status): MatchesRepository.update_match_status
UpdateMatchStatus(id, status) ==
    /\ LET upd == UpdateMatchStatusById(matches, id, status)
       IN  /\ matches' = upd.matches
           /\ ret' = Result("update_match_status", 0, None, None, upd.ok)
    /\ UNCHANGED <<conversations, visits, nextId, now, procs, profiles, criteria>>

\* sendMessage: the send_message route, for a user whose profile is sender
SendMessage(sender, id, text) ==
    /\ IF ~ProfileExists(sender)
       THEN /\ ret' = Result("profile_not_found", 0, None, None, FALSE)
            /\ UNCHANGED <<conversations, nextId>>
       ELSE IF id \notin {d._id : d \in GetAcceptedMatches(matches, sender)}
       THEN /\ ret' = Result("forbidden", 0, None, None, FALSE)
            /\ UNCHANGED <<conversations, nextId>>
       ELSE \E o \in AddMessageOutcomes(conversations, nextId.conversations, id,
                                        Message(now, sender, FirstName(sender), text)) :
              /\ CountMessages(o.conversations) <= MaxMsgs
              /\ conversations' = o.conversations
              /\ nextId' = [nextId EXCEPT !.conversations = IF o.inserted THEN @ + 1 ELSE @]
              /\ ret' = Result(IF o.ok THEN "message_sent" ELSE "send_failed",
                               0, None, None, o.ok)
    /\ UNCHANGED <<matches, visits, now, procs, profiles, criteria>>

\* match ids a caller may present: the stored ones and one that is not stored
MatchIds == 1 .. (Cardinality(Profiles) * (Cardinality(Profiles) - 1) + 1)

Next ==
    \/ \E c \in ProfileIds, t \in ProfileIds, msg \in LikeMessages : Like(c, t, msg)
    \/ \E id \in MatchIds, st \in MatchStatus : UpdateMatchStatus(id, st)
    \/ \E s \in ProfileIds, id \in MatchIds, text \in SendTexts : SendMessage(s, id, text)

Spec == Init /\ [][Next]_vars

----------------------------------------------------------------------------
(* Properties of the match reconciler (Spec) *)

\* the match records initiator -> target
Edge(ms, initiator, target) ==
    {d \in ms : d.initiator_profile_id = initiator /\ d.target_profile_id = target}

\* who said what, in order
Said(msgs) ==
    [i \in 1 .. Len(msgs) |->
        <<msgs[i].sender_profile_id, msgs[i].sender_name, msgs[i].content>>]

\* C1: when the only match between A and B is a PENDING match A->B, a like
\* of A by B returns mutual_match with the id of that match, leaves that
\* match ACCEPTED and creates no match B->A.
C1_ReverseLikeAccepts ==
    [][\A a \in Profiles, b \in Profiles, msg \in LikeMessages :
          \A d \in Edge(matches, a, b) :
             (/\ a # b
              /\ d.status = PENDING
              /\ Edge(matches, b, a) = {}
              /\ Like(b, a, msg))
             => /\ ret'.action = "mutual_match"
                /\ ret'.match_id = d._id
                /\ Edge(matches', a, b) = {[d EXCEPT !.status = ACCEPTED]}
                /\ Edge(matches', b, a) = {}]_vars

C1_Witness ==
    /\ ret.action = "mutual_match"
    /\ \E d \in matches :
          /\ d._id = ret.match_id
          /\ d.status = ACCEPTED
          /\ Edge(matches, d.target_profile_id, d.initiator_profile_id) = {}

C3_LikeIdempotent ==
    /\ [](\A c \in Profiles, t \in Profiles : Cardinality(Edge(matches, c, t)) <= 1)
    /\ [][\A c \in Profiles, t \in Profiles, msg \in LikeMessages :
             \A d \in Edge(matches, c, t) :
                Like(c, t, msg)
                => /\ ret'.action = "already_liked"
                   /\ ret'.match_id = d._id
                   /\ ret'.status = d.status
                   /\ matches' = matches
                   /\ conversations' = conversations
                   /\ Edge(matches', c, t) = {d}]_vars

C3_Witness ==
    /\ ret.action = "already_liked"
    /\ ret.status = REJECTED
    /\ \E d \in matches : d._id = ret.match_id /\ d.status = REJECTED
    /\ conversations # {}

\* C4: a match becomes ACCEPTED only by a step that finds it PENDING and is
\* a like of its initiator by its target; no match is created ACCEPTED.
C4_AcceptedOnlyByReverseLike ==
    [][\A d \in matches' :
          (d.status = ACCEPTED /\ d \notin matches)
          => /\ [d EXCEPT !.status = PENDING] \in matches
             /\ \E msg \in LikeMessages :
                   Like(d.target_profile_id, d.initiator_profile_id, msg)]_vars

\* C9: a like that returns like_sent for a message leaves, under the id of
\* the new match, the conversation [that message from the liker]; a like by
\* B with message m2 that returns mutual_match on the match A->B whose
\* conversation is [m1 from A] leaves the conversation
\* [m1 from A under A's name, m2 from B under B's name].
C9_LikeSeedsConversation ==
    [][\A a \in Profiles, b \in Profiles, m2 \in Texts :
          /\ (Like(a, b, m2) /\ ret'.action = "like_sent")
             => /\ AscOrders(conversations', ret'.match_id) # {}
                /\ \A o \in AscOrders(conversations', ret'.match_id) :
                      Said(GetConversation(o, NoneInt, NoneInt))
                         = << <<a, FirstName(a), m2>> >>
          /\ \A d \in Edge(matches, a, b), m1 \in Texts :
                (/\ d.status = PENDING
                 /\ d.initial_message = m1
                 /\ \A o \in AscOrders(conversations, d._id) :
                       Said(GetConversation(o, NoneInt, NoneInt))
                          = << <<a, FirstName(a), m1>> >>
                 /\ Like(b, a, m2)
                 /\ ret'.action = "mutual_match")
                => /\ ret'.match_id = d._id
                   /\ AscOrders(conversations', d._id) # {}
                   /\ \A o \in AscOrders(conversations', d._id) :
                         Said(GetConversation(o, NoneInt, NoneInt))
                            = << <<a, FirstName(a), m1>>, <<b, FirstName(b), m2>> >>]_vars

C9_Witness ==
    /\ ret.action = "mutual_match"
    /\ \E d \in matches :
          /\ d._id = ret.match_id
          /\ d.initial_message = "m1"
          /\ \E o \in AscOrders(conversations, d._id) :
                Said(GetConversation(o, NoneInt, NoneInt))
                   = << <<d.initiator_profile_id, FirstName(d.initiator_profile_id), "m1">>,
                        <<d.target_profile_id, FirstName(d.target_profile_id), "m2">> >>

----------------------------------------------------------------------------
(* ConvSpec: ConversationsRepository.create_conversation and add_message,  *)
(* one call at a time, on the conversation of one match                    *)

ConvMatchIds == {1}

\* createConversation(matchId, senderProfileId, senderName, text)
CreateConversationCall(m, sender, text) ==
    /\ CountMessages(conversations) < MaxNew
    /\ conversations' = CreateConversation(conversations, nextId.conversations, m,
                                           Message(now, sender, FirstName(sender), text))
    /\ nextId' = [nextId EXCEPT !.conversations = @ + 1]
    /\ ret' = Result("create_conversation", nextId.conversations, None, None, TRUE)
    /\ UNCHANGED <<matches, visits, now, procs, profiles, criteria>>

\* addMessage(matchId, senderProfileId, senderName, text)
AddMessageCall(m, sender, text) ==
    /\ CountMessages(conversations) < MaxNew
    /\ \E o \in AddMessageOutcomes(conversations, nextId.conversations, m,
                                   Message(now, sender, FirstName(sender), text)) :
          /\ conversations' = o.conversations
          /\ nextId' = [nextId EXCEPT !.conversations = IF o.inserted THEN @ + 1 ELSE @]
          /\ ret' = Result("add_message", 0, None, None, o.ok)
    /\ UNCHANGED <<matches, visits, now, procs, profiles, criteria>>

ConvNext ==
    \/ \E m \in ConvMatchIds, s \in Profiles, text \in Texts : CreateConversationCall(m, s, text)
    \/ \E m \in ConvMatchIds, s \in Profiles, text \in Texts : AddMessageCall(m, s, text)

ConvSpec == Init /\ [][ConvNext]_vars

----------------------------------------------------------------------------
(* Properties of the conversation store (ConvSpec) *)

\* the last k messages of s, for 0 <= k <= Len(s)
LastOf(s, k) == [i \in 1 .. k |-> s[Len(s) - k + i]]

\* the messages at positions from + 1 .. from + k of s, as far as s reaches
Window(s, from, k) ==
    LET n == IF from >= Len(s) THEN 0
             ELSE IF from + k > Len(s) THEN Len(s) - from ELSE k
    IN  [i \in 1 .. n |-> s[from + i]]

\* C5: every bucket of a match except the highest-numbered one holds exactly
\* MESSAGES_PER_BUCKET messages, and the highest-numbered one holds between
\* 1 and MESSAGES_PER_BUCKET.
C5_BucketFill ==
    \A m \in ConvMatchIds : \A b \in BucketsOf(conversations, m) :
        IF \A o \in BucketsOf(conversations, m) \ {b} : o.bucket_number < b.bucket_number
        THEN Len(b.messages) \in 1 .. MESSAGES_PER_BUCKET
        ELSE Len(b.messages) = MESSAGES_PER_BUCKET

\* C6: for every count N >= 0, get_latest_messages returns the last
\* min(N, total) messages of get_conversation, in the same order.
C6_LatestIsTail ==
    \A m \in ConvMatchIds, n \in 0 .. MaxArg :
        \A d \in DescOrders(conversations, m), a \in AscOrders(conversations, m) :
            LET all == GetConversation(a, NoneInt, NoneInt)
            IN  GetLatestMessages(d, n)
                   = LastOf(all, IF n < Len(all) THEN n ELSE Len(all))

\* C7: for every supplied offset >= 0 and limit >= 0, get_conversation
\* returns the messages at positions offset .. offset + limit - 1 of the
\* buckets concatenated in ascending bucket_number order.
C7_PaginationOverFlattened ==
    \A m \in ConvMatchIds, limit \in 0 .. MaxArg, skip \in 0 .. MaxArg :
        \A a \in AscOrders(conversations, m) :
            GetConversation(a, limit, skip) = Window(Flatten(a), skip, limit)

----------------------------------------------------------------------------
(* ConvConcSpec: create_conversation and add_message run by concurrent     *)
(* request workers; every step is one collection call or one reading of    *)
(* the clock (datetime.now)                                                 *)

InFlight == Cardinality({w \in Workers : procs[w].pc # "idle"})

\* calls started by the workers so far
Calls ==
    LET RECURSIVE Sum(_)
        Sum(S) == IF S = {} THEN 0
                  ELSE LET w == CHOOSE x \in S : TRUE
                       IN  procs[w].calls + Sum(S \ {w})
    IN  Sum(Workers)

\* add_message, find_one of the latest bucket
AddFind(w, m, sender, text) ==
    /\ procs[w].pc = "idle"
    /\ Calls < MaxCalls
    /\ \E lb \in IF ConversationExists(conversations, m)
                 THEN LatestBuckets(conversations, m) ELSE {NoDoc} :
          procs' = [procs EXCEPT ![w] =
                       [pc |-> "add_build",
                        args |-> [_id |-> m, sender |-> sender, text |-> text],
                        latest |-> IF Found(lb)
                                   THEN [_id |-> lb._id,
                                         bucket_number |-> lb.bucket_number,
                                         message_count |-> lb.message_count]
                                   ELSE NoDoc,
                        msg |-> NoDoc, calls |-> @.calls + 1]]
    /\ UNCHANGED <<matches, conversations, visits, nextId, now, ret, profiles, criteria>>

\* add_message, the message document is built with datetime.now
AddBuild(w) ==
    /\ procs[w].pc = "add_build"
    /\ procs' = [procs EXCEPT ![w].pc = "add_write",
                              ![w].msg = Message(now, procs[w].args.sender,
                                                 FirstName(procs[w].args.sender),
                                                 procs[w].args.text)]
    /\ UNCHANGED <<matches, conversations, visits, nextId, now, ret, profiles, criteria>>

\* add_message, insert_one of a bucket or update_one of the latest bucket
AddWrite(w) ==
    /\ procs[w].pc = "add_write"
    /\ LET o == AddMessageWrite(conversations, nextId.conversations, procs[w].args._id,
                                procs[w].latest, procs[w].msg)
       IN  /\ conversations' = o.conversations
           /\ nextId' = [nextId EXCEPT !.conversations = IF o.inserted THEN @ + 1 ELSE @]
           /\ ret' = Result("add_message", 0, None, None, o.ok)
    /\ procs' = [procs EXCEPT ![w] = Idle(procs[w].calls)]
    /\ UNCHANGED <<matches, visits, now, profiles, criteria>>

\* create_conversation, the bucket document is built with datetime.now
CreateBuild(w, m, sender, text) ==
    /\ procs[w].pc = "idle"
    /\ Calls < MaxCalls
    /\ procs' = [procs EXCEPT ![w] =
                    [pc |-> "create_insert",
                     args |-> [_id |-> m, sender |-> sender, text |-> text],
                     latest |-> NoDoc,
                     msg |-> Message(now, sender, FirstName(sender), text),
                     calls |-> @.calls + 1]]
    /\ UNCHANGED <<matches, conversations, visits, nextId, now, ret, profiles, criteria>>

\* create_conversation, insert_one
CreateInsert(w) ==
    /\ procs[w].pc = "create_insert"
    /\ conversations' = CreateConversation(conversations, nextId.conversations,
                                           procs[w].args._id, procs[w].msg)
    /\ nextId' = [nextId EXCEPT !.conversations = @ + 1]
    /\ ret' = Result("create_conversation", nextId.conversations, None, None, TRUE)
    /\ procs' = [procs EXCEPT ![w] = Idle(procs[w].calls)]
    /\ UNCHANGED <<matches, visits, now, profiles, criteria>>

\* one second passes
Tick ==
    /\ now % PROFILE_VISIT_TTL_SECONDS < MaxTicks
    /\ now' = now + 1
    /\ UNCHANGED <<matches, conversations, visits, nextId, ret, procs, profiles, criteria>>

ConvConcNext ==
    \/ \E w \in Workers, m \in ConvMatchIds, s \in Profiles, text \in SendTexts :
          AddFind(w, m, s, text)
    \/ \E w \in Workers : AddBuild(w)
    \/ \E w \in Workers : AddWrite(w)
    \/ \E w \in Workers, m \in ConvMatchIds, s \in Profiles, text \in SendTexts :
          CreateBuild(w, m, s, text)
    \/ \E w \in Workers : CreateInsert(w)
    \/ Tick

ConvConcSpec == Init /\ [][ConvConcNext]_vars

\* C8: the list returned by get_conversation is in non-decreasing timestamp
\* order, within each bucket and across buckets.
C8_ChronologicalOrder ==
    \A m \in ConvMatchIds : \A a \in AscOrders(conversations, m) :
        LET all == GetConversation(a, NoneInt, NoneInt)
        IN  \A i, j \in 1 .. Len(all) : i < j => all[i].datetime <= all[j].datetime

----------------------------------------------------------------------------
(* VisitSpec: record_visit run by concurrent request workers, the clock    *)
(* and the TTL monitor of the store                                        *)

\* record_visit calls started so far
VisitCalls ==
    LET RECURSIVE Sum(_)
        Sum(S) == IF S = {} THEN 0
                  ELSE LET w == CHOOSE x \in S : TRUE
                       IN  procs[w].calls + Sum(S \ {w})
    IN  Sum(Workers)

\* record_visit, visit_data is built with datetime.now
VisitBuild(w, u, p) ==
    /\ procs[w].pc = "idle"
    /\ VisitCalls < MaxVisitCalls
    /\ procs' = [procs EXCEPT ![w] =
                    [pc |-> "visit_upsert",
                     args |-> [_id |-> 0, user_id |-> u,
                               visited_profile_id |-> p, visited_at |-> now],
                     latest |-> NoDoc, msg |-> NoDoc, calls |-> @.calls + 1]]
    /\ UNCHANGED <<matches, conversations, visits, nextId, now, ret, profiles, criteria>>

\* record_visit, update_one with upsert
VisitUpsert(w) ==
    /\ procs[w].pc = "visit_upsert"
    /\ LET a == procs[w].args
           o == UpsertVisit(visits, nextId.profile_visits, a.user_id,
                            a.visited_profile_id, a.visited_at)
       IN  /\ visits' = o.visits
           /\ IF o.upserted_id # 0
              THEN /\ nextId' = [nextId EXCEPT !.profile_visits = @ + 1]
                   /\ ret' = Result("visit_inserted", o.upserted_id, None, None, TRUE)
                   /\ procs' = [procs EXCEPT ![w] = Idle(procs[w].calls)]
              ELSE /\ procs' = [procs EXCEPT ![w].pc = "visit_find"]
                   /\ UNCHANGED <<nextId, ret>>
    /\ UNCHANGED <<matches, conversations, now, profiles, criteria>>

\* record_visit, find_one of the existing document to return its id
VisitFind(w) ==
    /\ procs[w].pc = "visit_find"
    /\ LET S == VisitsOf(visits, procs[w].args.user_id, procs[w].args.visited_profile_id)
       IN  ret' = IF S # {}
                  THEN Result("visit_updated", (CHOOSE d \in S : TRUE)._id, None, None, TRUE)
                  ELSE Result("visit_updated", 0, None, None, FALSE)
    /\ procs' = [procs EXCEPT ![w] = Idle(procs[w].calls)]
    /\ UNCHANGED <<matches, conversations, visits, nextId, now, profiles, criteria>>

\* the retention period passes
Jump ==
    /\ now \div PROFILE_VISIT_TTL_SECONDS < MaxJumps
    /\ now' = now + PROFILE_VISIT_TTL_SECONDS
    /\ UNCHANGED <<matches, conversations, visits, nextId, ret, procs, profiles, criteria>>

\* the TTL monitor removes an expired document
ExpireVisit ==
    /\ \E d \in visits :
          /\ Expired(d, now)
          /\ visits' = visits \ {d}
    /\ UNCHANGED <<matches, conversations, nextId, now, ret, procs, profiles, criteria>>

VisitNext ==
    \/ \E w \in Workers, u \in Users, p \in Profiles : VisitBuild(w, u, p)
    \/ \E w \in Workers : VisitUpsert(w)
    \/ \E w \in Workers : VisitFind(w)
    \/ Tick
    \/ Jump
    \/ ExpireVisit

VisitSpec == Init /\ [][VisitNext]_vars

----------------------------------------------------------------------------
(* VisitLiveSpec: VisitSpec with the TTL monitor of the store running      *)
(* again and again (it wakes up periodically for as long as the store runs) *)

VisitLiveSpec == VisitSpec /\ WF_vars(ExpireVisit)

\* the visit records removed by the step
Removed == visits \ visits'

----------------------------------------------------------------------------
(* ProfilesRepository.get_random_profile_excluding_visited and             *)
(* MongoDatabase.get_random_profile_for_user                               *)

\* the result of get_profile / of a user without profile_id
NoProfile ==
    [exists |-> FALSE, _id |-> None, gender |-> None, looking_for_gender |-> {},
     date_of_birth |-> Date(0, 0), location |-> 0]

GetProfile(ps, pid) ==
    IF pid \in DOMAIN ps
    THEN [exists |-> TRUE, _id |-> pid, gender |-> ps[pid].gender,
          looking_for_gender |-> ps[pid].looking_for_gender,
          date_of_birth |-> ps[pid].date_of_birth, location |-> ps[pid].location]
    ELSE NoProfile

\* ObjectId(pid) succeeds on the ids of documents, stored or not
ValidObjectId(pid) == pid \in ProfileIds

\* a conversion that drops every id
VisitedObjectIds_SkipsAll(visited) == {}

\* the visited ids converted to ObjectId, the invalid ones skipped
VisitedObjectIds(visited) == {pid \in visited : ValidObjectId(pid)}

\* age on the day today, as computed for the returned profile
AgeOn(dob, today) == today.year - dob.year - (IF today.doy < dob.doy THEN 1 ELSE 0)

\* match_stage, for the stored profile doc with _id id
MatchStage(id, doc, crit, current, visited, today) ==
    /\ VisitedObjectIds(visited) # {} => id \notin VisitedObjectIds(visited)
    /\ crit.age_max # NoneInt
          => DateLess(Date(today.year - crit.age_max - 1, today.doy), doc.date_of_birth)
    /\ crit.age_min # NoneInt
          => ~DateLess(Date(today.year - crit.age_min, today.doy), doc.date_of_birth)
    /\ (current.exists /\ current.looking_for_gender # {})
          => doc.gender \in current.looking_for_gender
    /\ (current.exists /\ Truthy(current.gender))
          => current.gender \in doc.looking_for_gender

\* the pairs zip(locations, radii) yields whose radius is positive
LocationConditions(crit) ==
    {i \in 1 .. Len(crit.locations) :
        i <= Len(crit.radii) /\ crit.radii[i] # NoneInt /\ crit.radii[i] > 0}

DistanceMeters(a, b) == (IF a < b THEN b - a ELSE a - b) * 1000

\* a $geoNear stage is put in front of the pipeline: for the first pair only,
\* and only when its radius is positive
GeoNearApplies(crit) ==
    /\ Len(crit.locations) > 0
    /\ Len(crit.radii) > 0
    /\ LocationConditions(crit) # {}
    /\ crit.radii[1] # NoneInt /\ crit.radii[1] # 0 /\ crit.radii[1] > 0

GeoNear(doc, crit) ==
    DistanceMeters(doc.location, crit.locations[1]) <= crit.radii[1] * 1000

\* the documents the pipeline hands to $sample
Eligible(ps, crit, current, visited, today) ==
    {id \in DOMAIN ps :
        /\ MatchStage(id, ps[id], crit, current, visited, today)
        /\ GeoNearApplies(crit) => GeoNear(ps[id], crit)}

SelResult(a, u, p, age) == [action |-> a, user |-> u, profile |-> p, age |-> age]

\* $sample of size 1: any of the documents, None when there is none
GetRandomProfileExcludingVisited(ps, crit, current, visited, today) ==
    LET E == Eligible(ps, crit, current, visited, today)
    IN  IF E = {} THEN {[profile |-> None, age |-> NoneInt]}
        ELSE {[profile |-> id, age |-> AgeOn(ps[id].date_of_birth, today)] : id \in E}

GetRandomProfileForUser(u) ==
    LET current == IF ProfileIdOf(u) # None THEN GetProfile(profiles, ProfileIdOf(u))
                   ELSE NoProfile
    IN  GetRandomProfileExcludingVisited(profiles, criteria[u], current,
                                         GetVisitedProfileIds(visits, u), Today(now))

----------------------------------------------------------------------------
(* SelectSpec: candidate selection over stored profiles, saved criteria    *)
(* and visit records, one handler at a time                                *)

\* fields of the profiles and of the criteria that differ from the initial content
Edits(ps, cs) ==
    Cardinality({x \in Profiles \X ProfileFields : ps[x[1]][x[2]] # DefaultProfiles[x[1]][x[2]]})
    + Cardinality({u \in Users : cs[u].age_min # NoneInt \/ cs[u].age_max # NoneInt})
    + Cardinality({u \in Users : cs[u].locations # <<>>})

\* selectCandidate(user)
SelectCandidate(u) ==
    /\ \E r \in GetRandomProfileForUser(u) :
          ret' = SelResult("random_profile", u, r.profile, r.age)
    /\ UNCHANGED <<matches, conversations, visits, nextId, now, procs, profiles, criteria>>

\* selectCandidate(user) when collection.aggregate raises: the exception is
\* logged and None is returned
SelectCandidateFails(u) ==
    /\ ret' = SelResult("random_profile", u, None, NoneInt)
    /\ UNCHANGED <<matches, conversations, visits, nextId, now, procs, profiles, criteria>>

\* ids a caller may record a visit of: the stored profiles and a malformed id
SelVisitIds == Profiles \cup {"bad"}

\* recordVisit(user, profile): record_visit run without interruption
RecordVisit(u, p) ==
    /\ nextId.profile_visits <= MaxSelVisits
    /\ LET o == UpsertVisit(visits, nextId.profile_visits, u, p, now)
       IN  /\ visits' = o.visits
           /\ nextId' = [nextId EXCEPT !.profile_visits = IF o.upserted_id # 0 THEN @ + 1 ELSE @]
    /\ ret' = SelResult("record_visit", None, None, NoneInt)
    /\ UNCHANGED <<matches, conversations, now, procs, profiles, criteria>>

\* update_profile of one field
UpdateProfile(p, f, v) ==
    /\ Edits(profiles, criteria) < MaxEdits
    /\ profiles[p][f] = DefaultProfiles[p][f]
    /\ v # profiles[p][f]
    /\ profiles' = [profiles EXCEPT ![p][f] = v]
    /\ ret' = SelResult("update_profile", None, None, NoneInt)
    /\ UNCHANGED <<matches, conversations, visits, nextId, now, procs, criteria>>

\* users who save search criteria
CriteriaUsers == {u \in Users : ProfileIdOf(u) # None}

\* upsert_search_criteria
UpsertSearchCriteria(u, doc) ==
    /\ criteria[u] = NoCriteria
    /\ criteria' = [criteria EXCEPT ![u] = doc]
    /\ Edits(profiles, criteria') \in 1 .. MaxEdits
    /\ ret' = SelResult("upsert_search_criteria", None, None, NoneInt)
    /\ UNCHANGED <<matches, conversations, visits, nextId, now, procs, profiles>>

SelectNext ==
    \/ \E u \in Users : SelectCandidate(u)
    \/ \E u \in Users : SelectCandidateFails(u)
    \/ \E u \in Users, p \in SelVisitIds : RecordVisit(u, p)
    \/ \E p \in Profiles, f \in ProfileFields : \E v \in FieldValues(f) : UpdateProfile(p, f, v)
    \/ \E u \in CriteriaUsers, doc \in CriteriaDocs : UpsertSearchCriteria(u, doc)

SelectSpec == Init /\ [][SelectNext]_vars

----------------------------------------------------------------------------
(* Properties of candidate selection (SelectSpec) *)

\* C12: a selection for a user never returns a profile whose id is in one
\* of the user's stored visit records that has not expired.
C12_NeverReturnsVisited ==
    [][\A u \in Users :
          (SelectCandidate(u) /\ ret'.profile # None)
          => \A d \in visits :
                (d.user_id = u /\ ~Expired(d, now)) => d.visited_profile_id # ret'.profile]_vars

\* u1 has visited one profile and is handed the other one
C12_Witness ==
    /\ ret.action = "random_profile"
    /\ ret.user = "u1"
    /\ ret.profile \in Profiles
    /\ \E d \in visits : d.user_id = "u1" /\ d.visited_profile_id \in Profiles
    /\ \A d \in visits : d.user_id = "u1" => d.visited_profile_id # ret.profile

\* C13: a selection for a user never returns the user's own profile.
C13_NeverReturnsOwnProfile ==
    [][\A u \in Users :
          (SelectCandidate(u) /\ ProfileIdOf(u) # None)
          => ret'.profile # ProfileIdOf(u)]_vars

\* C14: a profile returned to a user who has a profile has an age, computed
\* on the day of the selection, within the saved age_min and age_max, a
\* gender contained in the requester's looking_for_gender, and a
\* looking_for_gender that contains the requester's gender.
C14_ReturnedProfileMatches ==
    [][\A u \in Users :
          (SelectCandidate(u) /\ ProfileIdOf(u) # None /\ ret'.profile # None)
          => LET c    == profiles[ret'.profile]
                 me   == profiles[ProfileIdOf(u)]
                 crit == criteria[u]
             IN  /\ ret'.age = AgeOn(c.date_of_birth, Today(now))
                 /\ crit.age_min # NoneInt => ret'.age >= crit.age_min
                 /\ crit.age_max # NoneInt => ret'.age <= crit.age_max
                 /\ c.gender \in me.looking_for_gender
                 /\ me.gender \in c.looking_for_gender]_vars

\* the profile lies within the radius of the saved pair i
Within(doc, crit, i) ==
    DistanceMeters(doc.location, crit.locations[i]) <= crit.radii[i] * 1000

\* C15: for a user who saved several (location, radius) pairs, all with a
\* positive radius, the profiles a selection may return are exactly those
\* that pass the other filters and lie within the radius of at least one of
\* the pairs.
C15_LocationsAreUnion ==
    \A u \in Users :
        LET crit    == criteria[u]
            current == IF ProfileIdOf(u) # None THEN GetProfile(profiles, ProfileIdOf(u))
                       ELSE NoProfile
            visited == GetVisitedProfileIds(visits, u)
        IN  (/\ Len(crit.locations) >= 2
             /\ \A i \in 1 .. Len(crit.locations) : crit.radii[i] > 0)
            => {r.profile : r \in GetRandomProfileForUser(u)} \ {None}
                 = {id \in DOMAIN profiles :
                       /\ MatchStage(id, profiles[id], crit, current, visited, Today(now))
                       /\ \E i \in 1 .. Len(crit.locations) : Within(profiles[id], crit, i)}

----------------------------------------------------------------------------
(* LikeConcSpec: MongoDatabase.handle_profile_like run by concurrent       *)
(* request workers; every step is one collection call                      *)

\* the like message of a concurrent request
LikeTexts == SendTexts \cup {None}

\* a worker returns r to its caller
Return(w, r) ==
    /\ ret' = r
    /\ procs' = [procs EXCEPT ![w] = Idle(procs[w].calls)]

\* handle_like, find_match of current -> target
LikeFindMatch(w, current, target, text) ==
    /\ procs[w].pc = "idle"
    /\ Calls < MaxLikeCalls
    /\ current # target
    /\ LET existing == FindMatch(matches, current, target)
       IN  IF Found(existing)
           THEN /\ ret' = Result("already_liked", existing._id, existing.status, None, TRUE)
                /\ procs' = [procs EXCEPT ![w] = Idle(procs[w].calls + 1)]
           ELSE /\ procs' = [procs EXCEPT ![w] =
                                [pc |-> "like_reverse",
                                 args |-> [_id |-> 0, current |-> current,
                                           target |-> target, text |-> text],
                                 latest |-> NoDoc, msg |-> NoDoc, calls |-> @.calls + 1]]
                /\ UNCHANGED ret
    /\ UNCHANGED <<matches, conversations, visits, nextId, now, profiles, criteria>>

\* handle_like, find_reverse_match
LikeFindReverse(w) ==
    /\ procs[w].pc = "like_reverse"
    /\ LET reverse == FindReverseMatch(matches, procs[w].args.current, procs[w].args.target)
       IN  procs' = [procs EXCEPT
                        ![w].latest = reverse,
                        ![w].pc = IF Found(reverse) /\ reverse.status = PENDING
                                  THEN "like_update" ELSE "like_create"]
    /\ UNCHANGED <<matches, conversations, visits, nextId, now, ret, profiles, criteria>>

\* handle_like, update_match_status_by_profiles of the reverse match that
\* was read, then the return of handle_like when there is no message
LikeUpdate(w) ==
    /\ procs[w].pc = "like_update"
    /\ LET a   == procs[w].args
           upd == UpdateMatchStatusByProfiles(matches, a.target, a.current, ACCEPTED)
           r   == Result("mutual_match", procs[w].latest._id, ACCEPTED,
                         procs[w].latest.initial_message, TRUE)
       IN  /\ matches' = upd.matches
           /\ IF ~upd.ok
              THEN Return(w, Result("error", 0, None, None, FALSE))
              ELSE IF ~Truthy(a.text)
              THEN Return(w, r)
              ELSE /\ procs' = [procs EXCEPT ![w].pc = "like_conv_exists", ![w].msg = r]
                   /\ UNCHANGED ret
    /\ UNCHANGED <<conversations, visits, nextId, now, profiles, criteria>>

\* handle_like, create_match: insert_one under the unique index; a
\* duplicate key raises out of the handler
LikeCreate(w) ==
    /\ procs[w].pc = "like_create"
    /\ LET a   == procs[w].args
           ins == CreateMatch(matches, nextId.matches, a.current, a.target, None, a.text)
           r   == Result("like_sent", nextId.matches, PENDING, None, TRUE)
       IN  /\ matches' = ins.matches
           /\ nextId' = [nextId EXCEPT !.matches = IF ins.ok THEN @ + 1 ELSE @]
           /\ IF ~ins.ok
              THEN Return(w, Result("exception", 0, None, None, FALSE))
              ELSE IF ~Truthy(a.text)
              THEN Return(w, r)
              ELSE /\ procs' = [procs EXCEPT ![w].pc = "like_conv_create", ![w].msg = r]
                   /\ UNCHANGED ret
    /\ UNCHANGED <<conversations, visits, now, profiles, criteria>>

\* handle_profile_like on like_sent: create_conversation
LikeConvCreate(w) ==
    /\ procs[w].pc = "like_conv_create"
    /\ LET a == procs[w].args
       IN  conversations' = CreateConversation(conversations, nextId.conversations,
                                               procs[w].msg.match_id,
                                               Message(now, a.current, FirstName(a.current), a.text))
    /\ nextId' = [nextId EXCEPT !.conversations = @ + 1]
    /\ Return(w, procs[w].msg)
    /\ UNCHANGED <<matches, visits, now, profiles, criteria>>

\* handle_profile_like on mutual_match: conversation_exists
LikeConvExists(w) ==
    /\ procs[w].pc = "like_conv_exists"
    /\ IF ConversationExists(conversations, procs[w].msg.match_id)
       THEN /\ procs' = [procs EXCEPT ![w].pc = "like_add_find"]
            /\ UNCHANGED ret
       ELSE IF ProfileExists(procs[w].args.target)
               /\ Truthy(procs[w].msg.reverse_match_message)
       THEN /\ procs' = [procs EXCEPT ![w].pc = "like_seed"]
            /\ UNCHANGED ret
       ELSE Return(w, procs[w].msg)
    /\ UNCHANGED <<matches, conversations, visits, nextId, now, profiles, criteria>>

\* handle_profile_like on mutual_match without conversation:
\* create_conversation with the message stored in the reverse match
LikeSeed(w) ==
    /\ procs[w].pc = "like_seed"
    /\ LET a == procs[w].args
       IN  conversations' = CreateConversation(conversations, nextId.conversations,
                                               procs[w].msg.match_id,
                                               Message(now, a.target, FirstName(a.target),
                                                       procs[w].msg.reverse_match_message))
    /\ nextId' = [nextId EXCEPT !.conversations = @ + 1]
    /\ procs' = [procs EXCEPT ![w].pc = "like_add_find"]
    /\ UNCHANGED <<matches, visits, now, ret, profiles, criteria>>

\* add_message called by handle_profile_like, find_one of the latest bucket
LikeAddFind(w) ==
    /\ procs[w].pc = "like_add_find"
    /\ \E lb \in IF ConversationExists(conversations, procs[w].msg.match_id)
                 THEN LatestBuckets(conversations, procs[w].msg.match_id) ELSE {NoDoc} :
          procs' = [procs EXCEPT
                       ![w].pc = "like_add_write",
                       ![w].latest = IF Found(lb)
                                     THEN [_id |-> lb._id,
                                           bucket_number |-> lb.bucket_number,
                                           message_count |-> lb.message_count]
                                     ELSE NoDoc]
    /\ UNCHANGED <<matches, conversations, visits, nextId, now, ret, profiles, criteria>>

\* add_message called by handle_profile_like, the write
LikeAddWrite(w) ==
    /\ procs[w].pc = "like_add_write"
    /\ LET a == procs[w].args
           o == AddMessageWrite(conversations, nextId.conversations, procs[w].msg.match_id,
                                procs[w].latest,
                                Message(now, a.current, FirstName(a.current), a.text))
       IN  /\ conversations' = o.conversations
           /\ nextId' = [nextId EXCEPT !.conversations = IF o.inserted THEN @ + 1 ELSE @]
    /\ Return(w, procs[w].msg)
    /\ UNCHANGED <<matches, visits, now, profiles, criteria>>

LikeSteps ==
    \/ \E w \in Workers, c \in Profiles, t \in Profiles, text \in LikeTexts :
          LikeFindMatch(w, c, t, text)
    \/ \E w \in Workers : LikeFindReverse(w)
    \/ \E w \in Workers : LikeUpdate(w)
    \/ \E w \in Workers : LikeCreate(w)
    \/ \E w \in Workers : LikeConvCreate(w)
    \/ \E w \in Workers : LikeConvExists(w)
    \/ \E w \in Workers : LikeSeed(w)
    \/ \E w \in Workers : LikeAddFind(w)
    \/ \E w \in Workers : LikeAddWrite(w)

LikeConcSpec == Init /\ [][LikeSteps]_vars

\* no like request is between two of its storage calls
AllIdle == InFlight = 0

\* the match records from initiator i to target t with status st
Edges(i, t, st) ==
    {m \in matches : m.initiator_profile_id = i /\ m.target_profile_id = t /\ m.status = st}

\* C16: once the concurrent likes of two profiles for each other have all
\* completed, the two directions are never both PENDING
C16_OppositeLikesResolve ==
    AllIdle => \A a \in Profiles, b \in Profiles :
                  ~(Edges(a, b, PENDING) # {} /\ Edges(b, a, PENDING) # {})

\* the messages of sender p stored in the conversation of match m
StoredFrom(m, p) ==
    LET all == Flatten(CHOOSE o \in AscOrders(conversations, m) : TRUE)
    IN  Cardinality({i \in 1 .. Len(all) : all[i].sender_profile_id = p})

\* C17: a like that turns the reverse match into a mutual match appends its
\* message only to a conversation that holds no message of its sender yet: a
\* second submission of the same like stores nothing more
C17_DoubleSubmissionStoresOnce ==
    [][\A w \in Workers :
          LikeAddWrite(w) => StoredFrom(procs[w].msg.match_id, procs[w].args.current) = 0]_vars

----------------------------------------------------------------------------
(* LikeRaceSpec: concurrent likes without message together with status     *)
(* updates and deletions of matches issued by other requests               *)

\* MatchesRepository.delete_match: delete_one by _id
DeleteMatch(id) ==
    /\ matches' = {m \in matches : m._id # id}
    /\ ret' = Result("delete_match", 0, None, None, matches' # matches)
    /\ UNCHANGED <<conversations, visits, nextId, now, procs, profiles, criteria>>

LikeRaceNext ==
    \/ \E w \in Workers, c \in Profiles, t \in Profiles : LikeFindMatch(w, c, t, None)
    \/ \E w \in Workers : LikeFindReverse(w)
    \/ \E w \in Workers : LikeUpdate(w)
    \/ \E w \in Workers : LikeCreate(w)
    \/ \E id \in MatchIds, st \in MatchStatus : UpdateMatchStatus(id, st)
    \/ \E id \in MatchIds : DeleteMatch(id)

LikeRaceSpec == Init /\ [][LikeRaceNext]_vars

\* C18: the status update of a like leaves every match that is ACCEPTED,
\* REJECTED or BLOCKED at the moment of the update as it is
C18_LikeUpdatesOnlyPending ==
    [][\A w \in Workers :
          LikeUpdate(w) => \A m \in matches : m.status # PENDING => m \in matches']_vars

----------------------------------------------------------------------------
(* ConvFullSpec: the concurrent create_conversation and add_message calls  *)
(* of ConvConcSpec on a conversation whose only bucket is one message      *)
(* short of its capacity                                                   *)

\* the bucket of match 1 after create_conversation and add_message have
\* stored MESSAGES_PER_BUCKET - 1 messages in it
NearFullBucket ==
    [_id |-> 1, match_id |-> 1, bucket_number |-> 1,
     message_count |-> MESSAGES_PER_BUCKET - 1,
     messages |-> [i \in 1 .. (MESSAGES_PER_BUCKET - 1) |->
                      Message(0, "A", FirstName("A"), "s1")]]

ConvFullInit ==
    /\ matches = {}
    /\ conversations = {NearFullBucket}
    /\ visits = {}
    /\ nextId = [matches |-> 1, conversations |-> 2, profile_visits |-> 1]
    /\ now = 0
    /\ ret = NoResult
    /\ procs = [w \in Workers |-> Idle(0)]
    /\ profiles = DefaultProfiles
    /\ criteria = [u \in Users |-> NoCriteria]

ConvFullSpec == ConvFullInit /\ [][ConvConcNext]_vars

\* C19: no bucket ever holds more than MESSAGES_PER_BUCKET messages
C19_BucketNeverOverfull ==
    \A b \in conversations :
        Len(b.messages) <= MESSAGES_PER_BUCKET /\ b.message_count <= MESSAGES_PER_BUCKET

\* the highest bucket number of match m in cs, 0 when m has no bucket
MaxBucketNumber(cs, m) ==
    IF BucketsOf(cs, m) = {} THEN 0
    ELSE (CHOOSE b \in LatestBuckets(cs, m) : TRUE).bucket_number

\* C20: a bucket inserted by add_message carries the highest bucket number
\* the match had at the moment of the insertion plus one, so that the
\* numbers of a match stay 1..k without repetition
C20_NewBucketIsMaxPlusOne ==
    [][\A w \in Workers :
          AddWrite(w) =>
             \A b \in conversations' :
                (\A o \in conversations : o._id # b._id) =>
                   b.bucket_number = MaxBucketNumber(conversations, b.match_id) + 1]_vars

----------------------------------------------------------------------------
(* Further properties of the match reconciler (Spec) *)

\* the match records between a and b, in either direction
Between(ms, a, b) == Edge(ms, a, b) \cup Edge(ms, b, a)

\* C21: an ACCEPTED match that is the only record between its two profiles
\* is still the only record between them after a like by either profile
C21_SingleRecordPerMutualPair ==
    [][\A c \in ProfileIds, t \in ProfileIds, msg \in LikeMessages :
          Like(c, t, msg) =>
             \A d \in matches :
                (/\ d.status = ACCEPTED
                 /\ Between(matches, d.initiator_profile_id, d.target_profile_id) = {d})
                => Between(matches', d.initiator_profile_id, d.target_profile_id) = {d}]_vars

----------------------------------------------------------------------------
(* Further properties of the candidate selector (SelectSpec) *)

\* the stored profiles that satisfy the filter for user u: age within the
\* saved range, gender symmetry with the profile of u, within the radius of
\* one of the saved pairs with a positive radius, not visited, not u's own
Filtered(u) ==
    LET crit == criteria[u]
        me   == IF ProfileIdOf(u) # None THEN GetProfile(profiles, ProfileIdOf(u)) ELSE NoProfile
        seen == VisitedObjectIds(GetVisitedProfileIds(visits, u))
    IN  {id \in DOMAIN profiles :
            LET doc == profiles[id]
                age == AgeOn(doc.date_of_birth, Today(now))
            IN  /\ id \notin seen
                /\ id # ProfileIdOf(u)
                /\ crit.age_min # NoneInt => age >= crit.age_min
                /\ crit.age_max # NoneInt => age <= crit.age_max
                /\ me.exists => /\ doc.gender \in me.looking_for_gender
                                /\ me.gender \in doc.looking_for_gender
                /\ \/ LocationConditions(crit) = {}
                   \/ \E i \in LocationConditions(crit) : Within(doc, crit, i)}

\* C22: a selection returns None exactly when no stored profile satisfies
\* the filter, and otherwise returns a profile that satisfies it
C22_NoneExactlyWhenNoCandidate ==
    ret.action = "random_profile"
    => /\ ret.profile = None <=> Filtered(ret.user) = {}
       /\ ret.profile # None => ret.profile \in Filtered(ret.user)

\* the indices of the saved pairs of crit, in order, that have a positive radius
RECURSIVE PositivePairs(_, _)
PositivePairs(crit, i) ==
    IF i > Len(crit.locations) \/ i > Len(crit.radii) THEN <<>>
    ELSE (IF crit.radii[i] # NoneInt /\ crit.radii[i] > 0 THEN <<i>> ELSE <<>>)
         \o PositivePairs(crit, i + 1)

\* crit with the pairs of non-positive radius taken out
WithoutMalformedPairs(crit) ==
    LET keep == PositivePairs(crit, 1)
    IN  [crit EXCEPT !.locations = [k \in 1 .. Len(keep) |-> crit.locations[keep[k]]],
                     !.radii = [k \in 1 .. Len(keep) |-> crit.radii[keep[k]]]]

\* C23: the profiles a selection may return are those it may return when the
\* saved pairs of non-positive radius are taken out of the criteria
C23_MalformedPairContributesNothing ==
    \A u \in Users :
        LET current == IF ProfileIdOf(u) # None THEN GetProfile(profiles, ProfileIdOf(u))
                       ELSE NoProfile
            visited == GetVisitedProfileIds(visits, u)
        IN  Eligible(profiles, criteria[u], current, visited, Today(now))
              = Eligible(profiles, WithoutMalformedPairs(criteria[u]), current, visited, Today(now))

----------------------------------------------------------------------------
(* Properties of the conversation writes of a like (Spec) *)

\* C24: a like with a message that returns mutual_match for a match without
\* conversation leaves the conversation of that match as the stored initial
\* message of the reverse liker followed by the message of the current liker
C24_MutualMatchReconstructs ==
    [][\A c \in Profiles, t \in Profiles, msg \in Texts :
          (/\ Like(c, t, msg)
           /\ ret'.action = "mutual_match"
           /\ ~ConversationExists(conversations, ret'.match_id))
          => \A a \in AscOrders(conversations', ret'.match_id) :
                Said(Flatten(a)) = << <<t, FirstName(t), ret'.reverse_match_message>>,
                                      <<c, FirstName(c), msg>> >>]_vars

\* the conversation of match m in cs holds a message of sender p with content text
Holds(cs, m, p, text) ==
    \E b \in BucketsOf(cs, m) : \E i \in 1 .. Len(b.messages) :
        b.messages[i].sender_profile_id = p /\ b.messages[i].content = text

\* C25: when a like with a message returns like_sent or mutual_match, the
\* message is stored in the conversation of the returned match
C25_NoFalseSuccess ==
    [][\A c \in Profiles, t \in Profiles, msg \in Texts :
          (Like(c, t, msg) /\ ret'.action \in {"like_sent", "mutual_match"})
          => Holds(conversations', ret'.match_id, c, msg)]_vars

----------------------------------------------------------------------------
(* Properties of the status update of a like (LikeRaceSpec) *)

\* C26: a like whose status update of the reverse match modifies no document
\* does not return at once: it goes on to a second attempt
C26_ZeroModifiedIsRetried ==
    [][\A w \in Workers :
          (/\ LikeUpdate(w)
           /\ Edge(matches, procs[w].args.target, procs[w].args.current) = {})
          => procs'[w].pc # "idle"]_vars

----------------------------------------------------------------------------
(* Properties of the conversation summary (ConvSpec) *)

\* sum(bucket["message_count"] for bucket in buckets)
RECURSIVE SumCounts(_, _)
SumCounts(buckets, i) ==
    IF i > Len(buckets) THEN 0
    ELSE buckets[i].message_count + SumCounts(buckets, i + 1)

\* get_conversation_summary on the buckets as the ascending sort returned them
GetConversationSummary(buckets) ==
    IF Len(buckets) = 0
    THEN [total_messages |-> 0, total_buckets |-> 0,
          first_message |-> NoDoc, last_message |-> NoDoc]
    ELSE LET first == buckets[1].messages
             last  == buckets[Len(buckets)].messages
         IN  [total_messages |-> SumCounts(buckets, 1),
              total_buckets |-> Len(buckets),
              first_message |-> IF Len(first) > 0 THEN first[1] ELSE NoDoc,
              last_message |-> IF Len(last) > 0 THEN last[Len(last)] ELSE NoDoc]

\* C27: the summary of a match counts the messages and the buckets of
\* get_conversation and names its first and its last message; without
\* bucket it has zero counts and no message
C27_SummaryAgreesWithConversation ==
    \A m \in ConvMatchIds :
        \A a \in AscOrders(conversations, m), c \in AscOrders(conversations, m) :
            LET sum == GetConversationSummary(a)
                all == GetConversation(c, NoneInt, NoneInt)
            IN  /\ sum.total_messages = Len(all)
                /\ sum.total_buckets = Cardinality(BucketsOf(conversations, m))
                /\ \A b \in BucketsOf(conversations, m) : b.message_count = Len(b.messages)
                /\ IF all = <<>>
                   THEN sum.first_message = NoDoc /\ sum.last_message = NoDoc
                   ELSE sum.first_message = all[1] /\ sum.last_message = all[Len(all)]

----------------------------------------------------------------------------
(* Properties of sendMessage (Spec) *)

\* sender is a stored profile taking part in the stored match id, which is ACCEPTED
MaySend(ms, sender, id) ==
    /\ ProfileExists(sender)
    /\ \E d \in ms : /\ d._id = id
                     /\ d.status = ACCEPTED
                     /\ sender \in {d.initiator_profile_id, d.target_profile_id}

----------------------------------------------------------------------------
(* Frame properties of the conversation store (ConvSpec) *)

\* C29: after a successful create_conversation or add_message call,
\* get_conversation returns what it returned before the call followed by the
\* new message
C29_AppendOnly ==
    [][\A m \in ConvMatchIds, sender \in Profiles, text \in Texts :
          ((CreateConversationCall(m, sender, text) \/ AddMessageCall(m, sender, text))
           /\ ret'.ok)
          => \A before \in AscOrders(conversations, m), after \in AscOrders(conversations', m) :
                GetConversation(after, NoneInt, NoneInt)
                   = Append(GetConversation(before, NoneInt, NoneInt),
                            Message(now, sender, FirstName(sender), text))]_vars

----------------------------------------------------------------------------
(* Properties of the concurrent conversation writes (ConvConcSpec) *)

\* how many times x occurs in msgs
Occurrences(msgs, x) == Cardinality({i \in 1 .. Len(msgs) : msgs[i] = x})

\* C30: the write of a concurrent add_message or create_conversation call
\* that succeeds adds its own message exactly once to what get_conversation
\* returns and neither removes nor repeats any other message
C30_NoMessageLostOrDuplicated ==
    [][\A w \in Workers :
          ((AddWrite(w) \/ CreateInsert(w)) /\ ret'.ok)
          => \A before \in AscOrders(conversations, procs[w].args._id),
                after \in AscOrders(conversations', procs[w].args._id) :
                LET b == GetConversation(before, NoneInt, NoneInt)
                    a == GetConversation(after, NoneInt, NoneInt)
                IN  /\ Len(a) = Len(b) + 1
                    /\ \A i \in 1 .. Len(a) :
                          Occurrences(a, a[i])
                             = Occurrences(b, a[i]) + (IF a[i] = procs[w].msg THEN 1 ELSE 0)]_vars

\* two add_message calls have overlapped: a bucket holds, after its first
\* message, a message stamped later followed by one stamped earlier, and
\* get_conversation returns all three
C30_Witness ==
    /\ \A w \in Workers : procs[w].pc = "idle"
    /\ ret.action = "add_message"
    /\ ret.ok
    /\ \E b \in BucketsOf(conversations, 1) :
          /\ Len(b.messages) = 3
          /\ b.messages[2].datetime > b.messages[3].datetime
    /\ \A a \in AscOrders(conversations, 1) : Len(GetConversation(a, NoneInt, NoneInt)) = 3

====
